---- MODULE Spec2Model ----
(***************************************************************************)
(* State-machine model of the GeometryExplorer component                   *)
(* (src/src/components/GeometryExplorer/GeometryExplorer.tsx).             *)
(*                                                                         *)
(* The component's handlers and effects are modelled as operators that map *)
(* a record of the whole program state to the record after the call; every *)
(* action of Next applies one of them to the current state.  Objects of    *)
(* the rendering engine live in sequences indexed by their identity.       *)
(* Angles are integers in units of 0.001 rad.                              *)
(***************************************************************************)
EXTENDS Integers, Sequences, FiniteSets, TLC

VARIABLES
    phase,          \* "unrendered" | "mounted" | "unmounted"
    localStorage,   \* key -> stored string, or Absent
    wireframe,      \* React state (line 12)
    autoRotate,     \* React state (line 15)
    pending,        \* passive effects of the last commit that have not run yet
    mountRef,       \* TRUE iff mountRef.current is the container element
    sceneRef, cameraRef, rendererRef, currentMeshRef, animRef,
    wireframeRef, autoRotateRef,
    scenes, cameras, renderers, meshes, materials, shapes,
    rafQueue,       \* outstanding animation-frame requests
    nextHandle,     \* next handle requestAnimationFrame returns
    listeners,      \* handlers registered for window 'resize'
    cleanup,        \* <<>> or <<closure of the init effect's cleanup>>
    windowSize,     \* current size of the window (and of the container)
    log,            \* calls made by the teardown, in order (observation only)
    frames,         \* number of calls of animate (observation only)
    snap,           \* rotation and counters at the last autoRotate sync
    wfTrail,        \* Material.wireframe after the last wireframe commits
    lastCommitted   \* preference values of the last commit, across sessions

vars == <<phase, localStorage, wireframe, autoRotate, pending, mountRef,
          sceneRef, cameraRef, rendererRef, currentMeshRef, animRef,
          wireframeRef, autoRotateRef, scenes, cameras, renderers, meshes,
          materials, shapes, rafQueue, nextHandle, listeners, cleanup,
          windowSize, log, frames, snap, wfTrail, lastCommitted>>

----------------------------------------------------------------------------
(* Bounds of the model *)

MaxFrames == 4

MaxShapes == 3

MaxKinds == 2

MaxInits == 2

----------------------------------------------------------------------------
(* Constants of the program *)

NULL == 0

RotX == 10

RotY == 15

Absent == "<absent>"

Keys == {"wireframe", "autoRotate"}

StoredValues == {Absent, "true", "false"}

Catalog == <<"Esfera", "Plano", "Cono", "Cilindro", "Toro", "Nudo", "Circulo", "Anillo">>

Sizes == {<<4, 3>>, <<16, 9>>}

EffectNames == <<"syncWireframe", "syncAutoRotate", "initScene", "applyWireframe">>

(* Variant for C9: the init effect also depends on the wireframe state *)
Deps_InitOnWireframe(e) ==
    CASE e = "syncWireframe"  -> {"wireframe"}
      [] e = "syncAutoRotate" -> {"autoRotate"}
      [] e = "initScene"      -> {"wireframe"}
      [] e = "applyWireframe" -> {"wireframe"}

Deps(e) ==
    CASE e = "syncWireframe"  -> {"wireframe"}
      [] e = "syncAutoRotate" -> {"autoRotate"}
      [] e = "initScene"      -> {}
      [] e = "applyWireframe" -> {"wireframe"}

String(b) == IF b THEN "true" ELSE "false"

----------------------------------------------------------------------------
(* The program state as one record *)

St ==
    [phase |-> phase, localStorage |-> localStorage,
     wireframe |-> wireframe, autoRotate |-> autoRotate, pending |-> pending,
     mountRef |-> mountRef, sceneRef |-> sceneRef, cameraRef |-> cameraRef,
     rendererRef |-> rendererRef, currentMeshRef |-> currentMeshRef,
     animRef |-> animRef, wireframeRef |-> wireframeRef,
     autoRotateRef |-> autoRotateRef, scenes |-> scenes, cameras |-> cameras,
     renderers |-> renderers, meshes |-> meshes, materials |-> materials,
     shapes |-> shapes, rafQueue |-> rafQueue, nextHandle |-> nextHandle,
     listeners |-> listeners, cleanup |-> cleanup, windowSize |-> windowSize,
     log |-> log, frames |-> frames, snap |-> snap, wfTrail |-> wfTrail,
     lastCommitted |-> lastCommitted]

Becomes(t) ==
    /\ phase' = t.phase
    /\ localStorage' = t.localStorage
    /\ wireframe' = t.wireframe
    /\ autoRotate' = t.autoRotate
    /\ pending' = t.pending
    /\ mountRef' = t.mountRef
    /\ sceneRef' = t.sceneRef
    /\ cameraRef' = t.cameraRef
    /\ rendererRef' = t.rendererRef
    /\ currentMeshRef' = t.currentMeshRef
    /\ animRef' = t.animRef
    /\ wireframeRef' = t.wireframeRef
    /\ autoRotateRef' = t.autoRotateRef
    /\ scenes' = t.scenes
    /\ cameras' = t.cameras
    /\ renderers' = t.renderers
    /\ meshes' = t.meshes
    /\ materials' = t.materials
    /\ shapes' = t.shapes
    /\ rafQueue' = t.rafQueue
    /\ nextHandle' = t.nextHandle
    /\ listeners' = t.listeners
    /\ cleanup' = t.cleanup
    /\ windowSize' = t.windowSize
    /\ log' = t.log
    /\ frames' = t.frames
    /\ snap' = t.snap
    /\ wfTrail' = t.wfTrail
    /\ lastCommitted' = t.lastCommitted

Starts(t) ==
    /\ phase = t.phase
    /\ localStorage = t.localStorage
    /\ wireframe = t.wireframe
    /\ autoRotate = t.autoRotate
    /\ pending = t.pending
    /\ mountRef = t.mountRef
    /\ sceneRef = t.sceneRef
    /\ cameraRef = t.cameraRef
    /\ rendererRef = t.rendererRef
    /\ currentMeshRef = t.currentMeshRef
    /\ animRef = t.animRef
    /\ wireframeRef = t.wireframeRef
    /\ autoRotateRef = t.autoRotateRef
    /\ scenes = t.scenes
    /\ cameras = t.cameras
    /\ renderers = t.renderers
    /\ meshes = t.meshes
    /\ materials = t.materials
    /\ shapes = t.shapes
    /\ rafQueue = t.rafQueue
    /\ nextHandle = t.nextHandle
    /\ listeners = t.listeners
    /\ cleanup = t.cleanup
    /\ windowSize = t.windowSize
    /\ log = t.log
    /\ frames = t.frames
    /\ snap = t.snap
    /\ wfTrail = t.wfTrail
    /\ lastCommitted = t.lastCommitted

(* A fresh page: nothing rendered, an empty heap; storage survives. *)
Fresh(store, committed, size) ==
    [phase |-> "unrendered", localStorage |-> store,
     wireframe |-> FALSE, autoRotate |-> FALSE, pending |-> <<>>,
     mountRef |-> FALSE, sceneRef |-> NULL, cameraRef |-> NULL,
     rendererRef |-> NULL, currentMeshRef |-> NULL, animRef |-> NULL,
     wireframeRef |-> FALSE, autoRotateRef |-> FALSE,
     scenes |-> <<>>, cameras |-> <<>>, renderers |-> <<>>, meshes |-> <<>>,
     materials |-> <<>>, shapes |-> <<>>, rafQueue |-> {}, nextHandle |-> 1,
     listeners |-> {}, cleanup |-> <<>>, windowSize |-> size,
     log |-> <<>>, frames |-> 0,
     snap |-> [rx |-> 0, ry |-> 0, frames |-> 0, draws |-> 0],
     wfTrail |-> <<>>, lastCommitted |-> committed]

----------------------------------------------------------------------------
(* Host facilities: animation frames, drawing, the catalog's factories *)

RequestAnimationFrame(s, cb) ==
    [s EXCEPT !.rafQueue = @ \cup {[handle |-> s.nextHandle, cb |-> cb]},
              !.nextHandle = @ + 1]

CancelAnimationFrame(s, h) ==
    [s EXCEPT !.rafQueue = {r \in @ : r.handle # h}]

Render(s, r) ==
    [s EXCEPT !.renderers[r].draws = @ + 1,
              !.renderers[r].staleDraws =
                  IF s.renderers[r].disposed > 0 THEN @ + 1 ELSE @]

NewShape(s, kind) ==
    [s EXCEPT !.shapes = Append(@, [kind |-> kind, disposed |-> 0])]

DisposeShape(s, g) ==
    [s EXCEPT !.shapes[g].disposed = @ + 1]

DisposeRenderer(s, r) ==
    [s EXCEPT !.renderers[r].disposed = @ + 1]

DisposeMaterial(s, m) ==
    [s EXCEPT !.materials[m].disposed = @ + 1]

----------------------------------------------------------------------------
(* Variant for C6: the frame callback ignores the auto-rotate Mirror Cell *)
Animate_AlwaysRotate(s, cb) ==
    LET s1 == [RequestAnimationFrame(s, cb) EXCEPT !.animRef = s.nextHandle,
                                                   !.frames = @ + 1]
        s2 == IF s1.currentMeshRef # NULL
              THEN [s1 EXCEPT !.meshes[s1.currentMeshRef].rx = @ + RotX,
                              !.meshes[s1.currentMeshRef].ry = @ + RotY]
              ELSE s1
    IN  Render(s2, cb.renderer)

(* Variant for C14: the frame callback does not schedule the next frame *)
Animate_NoReschedule(s, cb) ==
    LET s1 == [s EXCEPT !.frames = @ + 1]
        s2 == IF s1.autoRotateRef /\ s1.currentMeshRef # NULL
              THEN [s1 EXCEPT !.meshes[s1.currentMeshRef].rx = @ + RotX,
                              !.meshes[s1.currentMeshRef].ry = @ + RotY]
              ELSE s1
    IN  Render(s2, cb.renderer)

(* The render loop (lines 113-120) *)

Animate(s, cb) ==
    LET s1 == [RequestAnimationFrame(s, cb) EXCEPT !.animRef = s.nextHandle,
                                                   !.frames = @ + 1]
        s2 == IF s1.autoRotateRef /\ s1.currentMeshRef # NULL
              THEN [s1 EXCEPT !.meshes[s1.currentMeshRef].rx = @ + RotX,
                              !.meshes[s1.currentMeshRef].ry = @ + RotY]
              ELSE s1
    IN  Render(s2, cb.renderer)

(* The resize handler (lines 123-129) *)
HandleResize(s, h) ==
    IF ~s.mountRef THEN s
    ELSE [s EXCEPT !.cameras[h.camera].aspect = s.windowSize,
                   !.cameras[h.camera].projection = s.windowSize,
                   !.renderers[h.renderer].size = s.windowSize]

----------------------------------------------------------------------------
(* The effects *)

(* Variant for C8: the preference is mirrored but never stored *)
SyncWireframe_NoStore(s) ==
    [s EXCEPT !.wireframeRef = s.wireframe]

SyncWireframe(s) ==
    [s EXCEPT !.wireframeRef = s.wireframe,
              !.localStorage["wireframe"] = String(s.wireframe)]

(* Variant for C13: the Mirror Cell is written with the value it replaces *)
SyncAutoRotate_Stale(s) ==
    [s EXCEPT !.autoRotateRef = ~s.autoRotate,
              !.localStorage["autoRotate"] = String(s.autoRotate)]

(* Variant for C5: the preference is stored but the Mirror Cell is not written *)
SyncAutoRotate_NoRef(s) ==
    [s EXCEPT !.localStorage["autoRotate"] = String(s.autoRotate)]

SyncAutoRotate(s) ==
    [s EXCEPT !.autoRotateRef = s.autoRotate,
              !.localStorage["autoRotate"] = String(s.autoRotate)]

(* Variant for C3: the geometry is disposed before the renderer *)
Cleanup_Swapped(s, env) ==
    LET s1 == [s EXCEPT !.listeners = @ \ {env.handler},
                        !.log = Append(@, "removeEventListener")]
        s2 == IF s1.animRef # NULL
              THEN [CancelAnimationFrame(s1, s1.animRef)
                       EXCEPT !.log = Append(@, "cancelAnimationFrame")]
              ELSE s1
        s3 == [DisposeShape(s2, env.geometry)
                  EXCEPT !.log = Append(@, "geometry.dispose")]
        s4 == [DisposeRenderer(s3, env.renderer)
                  EXCEPT !.log = Append(@, "renderer.dispose")]
        s5 == [DisposeMaterial(s4, env.material)
                  EXCEPT !.log = Append(@, "material.dispose")]
    IN  [s5 EXCEPT !.scenes[env.scene].children = {},
                   !.log = Append(@, "scene.clear"),
                   !.cleanup = <<>>]

(* Variant for C4: the outstanding frame request is not cancelled *)
Cleanup_NoCancel(s, env) ==
    LET s1 == [s EXCEPT !.listeners = @ \ {env.handler},
                        !.log = Append(@, "removeEventListener")]
        s3 == [DisposeRenderer(s1, env.renderer)
                  EXCEPT !.log = Append(@, "renderer.dispose")]
        s4 == [DisposeShape(s3, env.geometry)
                  EXCEPT !.log = Append(@, "geometry.dispose")]
        s5 == [DisposeMaterial(s4, env.material)
                  EXCEPT !.log = Append(@, "material.dispose")]
    IN  [s5 EXCEPT !.scenes[env.scene].children = {},
                   !.log = Append(@, "scene.clear"),
                   !.cleanup = <<>>]

(* Variant for C17: the handle is cleared once its request is cancelled *)
Cleanup_ClearsHandle(s, env) ==
    LET s1 == [s EXCEPT !.listeners = @ \ {env.handler},
                        !.log = Append(@, "removeEventListener")]
        s2 == IF s1.animRef # NULL
              THEN [CancelAnimationFrame(s1, s1.animRef)
                       EXCEPT !.log = Append(@, "cancelAnimationFrame"),
                              !.animRef = NULL]
              ELSE s1
        s3 == [DisposeRenderer(s2, env.renderer)
                  EXCEPT !.log = Append(@, "renderer.dispose")]
        s4 == [DisposeShape(s3, env.geometry)
                  EXCEPT !.log = Append(@, "geometry.dispose")]
        s5 == [DisposeMaterial(s4, env.material)
                  EXCEPT !.log = Append(@, "material.dispose")]
    IN  [s5 EXCEPT !.scenes[env.scene].children = {},
                   !.log = Append(@, "scene.clear"),
                   !.cleanup = <<>>]

(* Teardown: the function the init effect returns (lines 132-140) *)
Cleanup(s, env) ==
    LET s1 == [s EXCEPT !.listeners = @ \ {env.handler},
                        !.log = Append(@, "removeEventListener")]
        s2 == IF s1.animRef # NULL
              THEN [CancelAnimationFrame(s1, s1.animRef)
                       EXCEPT !.log = Append(@, "cancelAnimationFrame")]
              ELSE s1
        s3 == [DisposeRenderer(s2, env.renderer)
                  EXCEPT !.log = Append(@, "renderer.dispose")]
        s4 == [DisposeShape(s3, env.geometry)
                  EXCEPT !.log = Append(@, "geometry.dispose")]
        s5 == [DisposeMaterial(s4, env.material)
                  EXCEPT !.log = Append(@, "material.dispose")]
    IN  [s5 EXCEPT !.scenes[env.scene].children = {},
                   !.log = Append(@, "scene.clear"),
                   !.cleanup = <<>>]

(* Variant for C11: no guard, the earlier canvas stays in the container *)
RendererGuard_None(s) == s

(* The guard against an earlier renderer (lines 85-90) *)
RendererGuard(s) ==
    LET old == s.rendererRef
    IN  IF old # NULL
        THEN [DisposeRenderer(s, old)
                 EXCEPT !.renderers[old].inDom = FALSE]
        ELSE s

(* Variant for C16: the material is always created solid *)
NewMaterial_Solid(s) ==
    [wireframe |-> FALSE, needsUpdate |-> FALSE, disposed |-> 0]

(* new THREE.MeshPhongMaterial (line 104) *)
NewMaterial(s) ==
    [wireframe |-> s.wireframeRef, needsUpdate |-> FALSE, disposed |-> 0]

(* Scene initialisation (lines 72-131) *)
InitScene(s) ==
    IF ~s.mountRef THEN s
    ELSE
    LET scene    == Len(s.scenes) + 1
        camera   == Len(s.cameras) + 1
        renderer == Len(s.renderers) + 1
        geometry == Len(s.shapes) + 1
        material == Len(s.materials) + 1
        cube     == Len(s.meshes) + 1
        \* lines 76-83
        s1 == [s EXCEPT !.scenes = Append(@, [children |-> {}]),
                        !.sceneRef = scene,
                        !.cameras = Append(@, [aspect |-> s.windowSize,
                                               projection |-> s.windowSize]),
                        !.cameraRef = camera]
        \* lines 85-90
        s2 == RendererGuard(s1)
        \* lines 92-96
        s3 == [s2 EXCEPT !.renderers = Append(@, [size |-> s.windowSize,
                                                  disposed |-> 0, inDom |-> TRUE,
                                                  draws |-> 0, staleDraws |-> 0]),
                         !.rendererRef = renderer]
        \* lines 98-101
        s4 == [s3 EXCEPT !.scenes[scene].children = @ \cup {"ambient", "dir"}]
        \* lines 103-107
        s5 == [NewShape(s4, "Box")
                  EXCEPT !.materials = Append(@, NewMaterial(s)),
                         !.meshes = Append(@, [geometry |-> geometry,
                                               material |-> material,
                                               rx |-> 0, ry |-> 0]),
                         !.currentMeshRef = cube,
                         !.scenes[scene].children = @ \cup {"cube"}]
        \* lines 109-111
        s6 == [s5 EXCEPT !.scenes[scene].children = @ \cup {"axes", "grid"}]
        \* lines 113-121
        s7 == Animate(s6, [renderer |-> renderer, scene |-> scene,
                           camera |-> camera])
        \* lines 123-130
        handler == [camera |-> camera, renderer |-> renderer]
    IN  [s7 EXCEPT !.listeners = @ \cup {handler},
                   !.cleanup = <<[handler |-> handler, renderer |-> renderer,
                                  geometry |-> geometry, material |-> material,
                                  scene |-> scene]>>]

(* Variant for C7: the material is marked for update but its flag is not set *)
ApplyWireframe_FlagOnly(s) ==
    IF s.currentMeshRef = NULL THEN s
    ELSE [s EXCEPT !.materials[s.meshes[s.currentMeshRef].material].needsUpdate = TRUE]

(* Apply the wireframe state to the material (lines 155-162) *)
ApplyWireframe(s) ==
    IF s.currentMeshRef = NULL THEN s
    ELSE LET mat == s.meshes[s.currentMeshRef].material
         IN  [s EXCEPT !.materials[mat].wireframe = s.wireframe,
                       !.materials[mat].needsUpdate = TRUE]

(* Variant for C1: the outgoing Shape is not disposed *)
ReplaceGeometry_Leak(s, kind) ==
    IF s.currentMeshRef = NULL THEN s
    ELSE [NewShape(s, kind)
             EXCEPT !.meshes[s.currentMeshRef].geometry = Len(s.shapes) + 1]

(* Variant for C10: the factory is invoked before the Mesh is looked up *)
ReplaceGeometry_EagerFactory(s, kind) ==
    LET s1 == NewShape(s, kind)
    IN  IF s.currentMeshRef = NULL THEN s1
        ELSE DisposeShape([s1 EXCEPT !.meshes[s.currentMeshRef].geometry =
                                         Len(s.shapes) + 1],
                          s.meshes[s.currentMeshRef].geometry)

(* Variant for C12: the factory hands out one shared Shape per entry *)
Factory_Shared(s, kind) ==
    IF \E i \in 1..Len(s.shapes) : s.shapes[i].kind = kind
    THEN [state |-> s,
          shape |-> CHOOSE i \in 1..Len(s.shapes) : s.shapes[i].kind = kind]
    ELSE [state |-> NewShape(s, kind), shape |-> Len(s.shapes) + 1]

(* A catalog entry's create (lines 26-54): the state after the call and    *)
(* the Shape it returns                                                    *)
Factory(s, kind) ==
    [state |-> NewShape(s, kind), shape |-> Len(s.shapes) + 1]

(* Variant for C15: the Mesh is rebuilt around the new Shape *)
ReplaceGeometry_NewMesh(s, kind) ==
    IF s.currentMeshRef = NULL THEN s
    ELSE LET mesh == s.currentMeshRef
             made == Factory(s, kind)
         IN  DisposeShape([made.state EXCEPT !.meshes[mesh].geometry = made.shape,
                                             !.meshes[mesh].rx = 0,
                                             !.meshes[mesh].ry = 0],
                          s.meshes[mesh].geometry)

(* Geometry replacement (lines 144-152) *)
ReplaceGeometry(s, kind) ==
    IF s.currentMeshRef = NULL THEN s
    ELSE LET mesh        == s.currentMeshRef
             oldGeometry == s.meshes[mesh].geometry
             made        == Factory(s, kind)
             newGeometry == made.shape
             s1 == [made.state EXCEPT !.meshes[mesh].geometry = newGeometry]
         IN  DisposeShape(s1, oldGeometry)

----------------------------------------------------------------------------
(* The framework: render and commit, and the effects a commit schedules *)

GetItem(s, key) == s.localStorage[key]

(* First render and commit (lines 5-20, 167): state from storage, refs,    *)
(* the container attached, every effect scheduled in declaration order.    *)
MountComponent(s) ==
    LET w == (GetItem(s, "wireframe") = "true")
        a == (GetItem(s, "autoRotate") # "false")
    IN  [s EXCEPT !.phase = "mounted",
                  !.wireframe = w, !.autoRotate = a,
                  !.wireframeRef = w, !.autoRotateRef = a,
                  !.mountRef = TRUE, !.pending = EffectNames]

(* The effects whose dependency list names a changed state *)
EffectsFor(changed) ==
    SelectSeq(EffectNames, LAMBDA e : Deps(e) \cap changed # {})

RunEffect(s, e) ==
    CASE e = "syncWireframe"  -> SyncWireframe(s)
      [] e = "syncAutoRotate" -> SyncAutoRotate(s)
      [] e = "initScene"      ->
            InitScene(IF s.cleanup # <<>> THEN Cleanup(s, s.cleanup[1]) ELSE s)
      [] e = "applyWireframe" -> ApplyWireframe(s)
      [] e = "cleanup"        ->
            IF s.cleanup # <<>> THEN Cleanup(s, s.cleanup[1]) ELSE s

RECURSIVE RunEffects(_, _)
RunEffects(s, q) ==
    IF q = <<>> THEN s ELSE RunEffects(RunEffect(s, Head(q)), Tail(q))

RotationOf(s) ==
    IF s.currentMeshRef = NULL THEN [rx |-> 0, ry |-> 0]
    ELSE [rx |-> s.meshes[s.currentMeshRef].rx, ry |-> s.meshes[s.currentMeshRef].ry]

DrawsOf(s) ==
    IF s.rendererRef = NULL THEN 0 ELSE s.renderers[s.rendererRef].draws

Last3(q) == IF Len(q) > 3 THEN Tail(q) ELSE q

(* One flush of the passive effects of the last commit, in order *)
FlushEffects(s) ==
    LET t   == RunEffects(s, s.pending)
        ran == {s.pending[i] : i \in 1..Len(s.pending)}
    IN  [t EXCEPT
            !.pending = <<>>,
            !.snap = IF "syncAutoRotate" \in ran
                     THEN [rx |-> RotationOf(s).rx, ry |-> RotationOf(s).ry,
                           frames |-> s.frames, draws |-> DrawsOf(s)]
                     ELSE @,
            !.wfTrail = IF "applyWireframe" \in ran /\ t.currentMeshRef # NULL
                        THEN Last3(Append(@,
                               t.materials[t.meshes[t.currentMeshRef].material].wireframe))
                        ELSE @,
            !.lastCommitted = IF s.phase = "mounted"
                              THEN [has |-> TRUE, wireframe |-> s.wireframe,
                                    autoRotate |-> s.autoRotate]
                              ELSE @]

(* The buttons (lines 182, 200, 203) *)
ClickWireframe(s) ==
    [s EXCEPT !.wireframe = ~s.wireframe,
              !.pending = EffectsFor({"wireframe"})]

ClickAutoRotate(s) ==
    [s EXCEPT !.autoRotate = ~s.autoRotate,
              !.pending = EffectsFor({"autoRotate"})]

ClickGeometry(s, kind) == ReplaceGeometry(s, kind)

(* Unmount commit: the container's ref is detached, the cleanup scheduled *)
UnmountComponent(s) ==
    [s EXCEPT !.phase = "unmounted", !.mountRef = FALSE,
              !.pending = <<"cleanup">>]

(* The framework re-runs the effects on the same instance, refs and state  *)
(* kept: every cleanup, then every effect in declaration order             *)
ReinitComponent(s) ==
    [s EXCEPT !.pending = <<"cleanup">> \o EffectNames]

(* The host calls an outstanding frame request *)
RunFrame(s, r) ==
    Animate([s EXCEPT !.rafQueue = @ \ {r}], r.cb)

RECURSIVE RunListeners(_, _)
RunListeners(s, L) ==
    IF L = {} THEN s
    ELSE LET h == CHOOSE x \in L : TRUE
         IN  RunListeners(HandleResize(s, h), L \ {h})

(* The window is resized and the host dispatches 'resize' *)
DispatchResize(s, size) ==
    RunListeners([s EXCEPT !.windowSize = size], s.listeners)

----------------------------------------------------------------------------
(* Actions *)

NoCommit == [has |-> FALSE, wireframe |-> FALSE, autoRotate |-> FALSE]

Init ==
    \E store \in [Keys -> StoredValues], size \in Sizes :
        Starts(Fresh(store, NoCommit, size))

Mount ==
    /\ phase = "unrendered"
    /\ Becomes(MountComponent(St))

Flush ==
    /\ pending # <<>>
    /\ Becomes(FlushEffects(St))

ToggleWireframe ==
    /\ phase = "mounted" /\ pending = <<>>
    /\ Becomes(ClickWireframe(St))

ToggleAutoRotate ==
    /\ phase = "mounted" /\ pending = <<>>
    /\ Becomes(ClickAutoRotate(St))

SelectGeometry ==
    /\ phase = "mounted"
    /\ currentMeshRef # NULL => Len(shapes) < MaxShapes
    /\ \E i \in 1..Len(Catalog) :
          /\ i <= MaxKinds
          /\ Becomes(ClickGeometry(St, Catalog[i]))

Frame ==
    /\ frames < MaxFrames
    /\ \E r \in rafQueue : Becomes(RunFrame(St, r))

Resize ==
    /\ windowSize \in Sizes
    /\ \E size \in Sizes : Becomes(DispatchResize(St, size))

Unmount ==
    /\ phase = "mounted" /\ pending = <<>>
    /\ Becomes(UnmountComponent(St))

NewSession ==
    /\ phase # "unrendered"
    /\ Becomes(Fresh(localStorage, lastCommitted, windowSize))

Next ==
    \/ Mount
    \/ Flush
    \/ ToggleWireframe
    \/ ToggleAutoRotate
    \/ SelectGeometry
    \/ Frame
    \/ Resize
    \/ Unmount
    \/ NewSession

Spec == Init /\ [][Next]_vars

(* Re-initialisation on the same component instance *)
Reinit ==
    /\ phase = "mounted" /\ pending = <<>>
    /\ Len(renderers) < MaxInits
    /\ Len(shapes) < MaxShapes
    /\ frames < MaxFrames
    /\ Becomes(FlushEffects(ReinitComponent(St)))

(* The operations that touch what a re-initialisation touches.  Resize    *)
(* and the auto-rotate toggle are left to Spec: they write the camera's   *)
(* aspect, the renderer's size, the rotation and the auto-rotate          *)
(* preference, and nothing an initialisation or a teardown reads.         *)
NextReinit ==
    \/ Mount
    \/ Flush
    \/ ToggleWireframe
    \/ SelectGeometry
    \/ Frame
    \/ Unmount
    \/ NewSession
    \/ Reinit

SpecReinit == Init /\ [][NextReinit]_vars

----------------------------------------------------------------------------
(* Derived notions used by the properties *)

Mounted == phase = "mounted"

Committed == pending = <<>>

(* The scene has been initialised and its teardown has not run *)
SceneAlive == currentMeshRef # NULL /\ cleanup # <<>>

(* The teardown has run *)
TornDown == log # <<>>

AttachedShape == meshes[currentMeshRef].geometry

ActiveMaterial == materials[meshes[currentMeshRef].material]

Undisposed == {i \in 1..Len(shapes) : shapes[i].disposed = 0}

TeardownOrder ==
    <<"removeEventListener", "cancelAnimationFrame", "renderer.dispose",
      "geometry.dispose", "material.dispose", "scene.clear">>

----------------------------------------------------------------------------
(* C1: while the scene is initialised and not torn down, exactly one Shape *)
(* is attached to the Mesh, it is the only Shape created and not disposed, *)
(* and every Shape that was replaced has been disposed exactly once.       *)
C1_OneShapeAttached ==
    SceneAlive =>
        /\ AttachedShape \in 1..Len(shapes)
        /\ Undisposed = {AttachedShape}
        /\ \A i \in 1..Len(shapes) : i # AttachedShape => shapes[i].disposed = 1

C1_Witness ==
    /\ SceneAlive /\ Mounted
    /\ Len(shapes) = 3
    /\ AttachedShape = 3

(* C2: once the teardown has run, every Shape ever created (the default    *)
(* cube and every replacement) has been disposed exactly once.             *)
C2_AllShapesDisposedOnce ==
    TornDown => \A i \in 1..Len(shapes) : shapes[i].disposed = 1

(* C3: on unmount after initialisation the teardown performs its steps in  *)
(* the stated order, each exactly once: listener removed, frame request    *)
(* cancelled, renderer, geometry and material disposed, scene cleared.     *)
C3_TeardownOrder ==
    /\ log \in {<<>>, TeardownOrder}
    /\ phase = "unmounted" /\ Committed => log = TeardownOrder
    /\ TornDown =>
         /\ listeners = {}
         /\ rafQueue = {}
         /\ \A r \in 1..Len(renderers) : renderers[r].disposed = 1
         /\ \A m \in 1..Len(materials) : materials[m].disposed = 1
         /\ \A c \in 1..Len(scenes) : scenes[c].children = {}
         /\ shapes[1].disposed >= 1

C3_Witness ==
    /\ phase = "unmounted" /\ Committed
    /\ log = TeardownOrder
    /\ Len(renderers) = 1

(* C4: after the teardown has run no animation-frame request is            *)
(* outstanding, and from then on no rotation is applied and no draw call   *)
(* is issued; no draw call is ever issued on a disposed renderer.          *)
C4_NoFrameAfterTeardown ==
    /\ [](TornDown => rafQueue = {})
    /\ [](\A r \in 1..Len(renderers) : renderers[r].staleDraws = 0)
    /\ [][TornDown /\ TornDown' => meshes' = meshes /\ renderers' = renderers
                                    /\ frames' = frames]_vars

C4_Witness ==
    /\ TornDown
    /\ frames >= 3
    /\ rafQueue = {}

(* C5: after every commit (its effects have run) each Mirror Cell equals   *)
(* its reactive state, and after creation the Mirror Cells are written     *)
(* only by their sync effects.                                             *)
C5_MirrorCells ==
    /\ [](Mounted /\ Committed =>
             wireframeRef = wireframe /\ autoRotateRef = autoRotate)
    /\ [][phase # "unrendered" /\ phase' # "unrendered" =>
             /\ wireframeRef' # wireframeRef =>
                    "syncWireframe" \in {pending[i] : i \in 1..Len(pending)}
                    /\ pending' = <<>> /\ wireframeRef' = wireframe
             /\ autoRotateRef' # autoRotateRef =>
                    "syncAutoRotate" \in {pending[i] : i \in 1..Len(pending)}
                    /\ pending' = <<>> /\ autoRotateRef' = autoRotate]_vars

C5_Witness ==
    /\ Mounted /\ Committed
    /\ Len(wfTrail) >= 2
    /\ wireframeRef = wireframe
    /\ autoRotateRef = autoRotate
    /\ snap.frames >= 1

C7_WireframeRoundTrip ==
    Mounted /\ Committed /\ currentMeshRef # NULL =>
        /\ ActiveMaterial.wireframe = wireframe
        /\ localStorage["wireframe"] = (IF wireframe THEN "true" ELSE "false")
        /\ wfTrail # <<>> /\ wfTrail[Len(wfTrail)] = ActiveMaterial.wireframe
        /\ Len(wfTrail) >= 2 => wfTrail[Len(wfTrail) - 1] # wfTrail[Len(wfTrail)]
        /\ Len(wfTrail) = 3 => wfTrail[3] = wfTrail[1]

C7_Witness ==
    /\ Mounted /\ Committed /\ currentMeshRef # NULL
    /\ wfTrail = <<FALSE, TRUE, FALSE>>
    /\ ~ActiveMaterial.wireframe
    /\ localStorage["wireframe"] = "false"

(* C8: a new session starts with the preference values of the previous     *)
(* session's last commit; a key absent from storage gives autoRotate =     *)
(* true and wireframe = false.                                             *)
C8_PreferencesPersist ==
    [][phase = "unrendered" /\ phase' = "mounted" =>
          /\ lastCommitted.has =>
                 /\ wireframe' = lastCommitted.wireframe
                 /\ autoRotate' = lastCommitted.autoRotate
          /\ localStorage["wireframe"] = Absent => wireframe' = FALSE
          /\ localStorage["autoRotate"] = Absent => autoRotate' = TRUE]_vars

C8_Witness ==
    /\ Mounted /\ pending = EffectNames
    /\ lastCommitted.has
    /\ lastCommitted.wireframe /\ ~lastCommitted.autoRotate
    /\ wireframe /\ ~autoRotate

DisposedCounts(objs) == [i \in 1..Len(objs) |-> objs[i].disposed]

(* C9: the scene is initialised once per mount and torn down once per      *)
(* unmount; toggles, their effects and geometry replacements leave the     *)
(* scene, camera, renderer, Mesh and Material the same objects, and        *)
(* create or dispose nothing but Shapes, one of each per replacement.      *)
C9_InitAndTeardownOnce ==
    /\ [](/\ Len(scenes) <= 1 /\ Len(cameras) <= 1 /\ Len(renderers) <= 1
          /\ Len(meshes) <= 1 /\ Len(materials) <= 1
          /\ Mounted /\ Committed => Len(renderers) = 1 /\ ~TornDown
          /\ log \in {<<>>, TeardownOrder})
    /\ [][Mounted /\ Mounted' /\ currentMeshRef # NULL =>
            /\ UNCHANGED <<sceneRef, cameraRef, rendererRef, currentMeshRef,
                           scenes, listeners, cleanup, log>>
            /\ Len(cameras') = Len(cameras)
            /\ Len(meshes') = Len(meshes)
            /\ meshes'[currentMeshRef].material = meshes[currentMeshRef].material
            /\ DisposedCounts(renderers') = DisposedCounts(renderers)
            /\ DisposedCounts(materials') = DisposedCounts(materials)
            /\ \/ shapes' = shapes
               \/ /\ Len(shapes') = Len(shapes) + 1
                  /\ pending' = pending
                  /\ \A i \in 1..Len(shapes) :
                        shapes'[i].disposed =
                            shapes[i].disposed + (IF i = AttachedShape THEN 1 ELSE 0)]_vars

C9_Witness ==
    /\ Mounted /\ Committed
    /\ Len(wfTrail) = 3
    /\ snap.frames >= 1
    /\ Len(shapes) = 3
    /\ Len(renderers) = 1 /\ renderers[1].disposed = 0
    /\ materials[1].disposed = 0

(* C10: replaceGeometry with no active Mesh is a no-op: no factory is      *)
(* invoked, nothing is disposed, nothing changes; a resize event with no   *)
(* container element changes nothing either.                               *)
C10_SilentNoOps ==
    /\ currentMeshRef = NULL =>
          \A i \in 1..Len(Catalog) : ReplaceGeometry(St, Catalog[i]) = St
    /\ ~mountRef =>
          /\ \A h \in listeners : HandleResize(St, h) = St
          /\ \A size \in Sizes :
                DispatchResize(St, size) = [St EXCEPT !.windowSize = size]

C10_Witness ==
    /\ Mounted /\ currentMeshRef = NULL
    /\ "initScene" \in {pending[i] : i \in 1..Len(pending)}
    /\ shapes = <<>>

----------------------------------------------------------------------------
(* Properties of re-initialisation, the catalog and the render loop *)

Canvases == {r \in 1..Len(renderers) : renderers[r].inDom}

(* C11: every re-initialisation on the same instance disposes the earlier  *)
(* renderer and removes its canvas before the new renderer is created, so  *)
(* the container never holds more than one canvas, and it is the canvas    *)
(* of the current renderer.                                                *)
C11_OneCanvas ==
    /\ Cardinality(Canvases) <= 1
    /\ rendererRef # NULL => Canvases = {rendererRef}
    /\ \A r \in 1..Len(renderers) : r # rendererRef => renderers[r].disposed >= 1

C11_Witness ==
    /\ Mounted /\ Committed
    /\ Len(renderers) = 2
    /\ ~renderers[1].inDom /\ renderers[1].disposed >= 1
    /\ renderers[2].inDom /\ renderers[2].disposed = 0

(* A replacement step: the scene stays mounted and the Shapes change *)
ReplaceStep ==
    Mounted /\ Mounted' /\ currentMeshRef # NULL /\ shapes' # shapes

(* C12: every call of a catalog factory returns a fresh Shape: the Shape   *)
(* attached by a replacement did not exist before, is not disposed, and    *)
(* the disposal of the outgoing Shape marks no other Shape, also when the  *)
(* same entry is clicked twice in a row.                                   *)
C12_FreshShapes ==
    /\ [](SceneAlive => shapes[AttachedShape].disposed = 0)
    /\ [][ReplaceStep =>
            LET old == AttachedShape
                new == meshes'[currentMeshRef].geometry
            IN  /\ new \notin 1..Len(shapes)
                /\ new \in 1..Len(shapes')
                /\ shapes'[new].disposed = 0
                /\ \A i \in 1..Len(shapes) : i # old => shapes'[i] = shapes[i]]_vars

C12_Witness ==
    /\ SceneAlive /\ Mounted
    /\ Len(shapes) = 3
    /\ shapes[2].kind = shapes[3].kind
    /\ shapes[2].disposed = 1
    /\ shapes[3].disposed = 0

(* A step in which the host runs the frame callback *)
FrameStep ==
    frames' = frames + 1 /\ pending' = pending /\ phase' = phase

(* C13 as stated: no frame callback ever reads an auto-rotate Mirror Cell  *)
(* that differs from the autoRotate state.                                 *)
C13_NoStaleFrame ==
    [][FrameStep => autoRotateRef = autoRotate]_vars

(* C13 amended: a frame callback that runs when the auto-rotate sync       *)
(* effect is not pending reads a Mirror Cell equal to the autoRotate       *)
(* state, and rotates the Mesh exactly when autoRotate is true.            *)
C13_NoStaleFrameOnceSynced ==
    [][FrameStep /\ "syncAutoRotate" \notin {pending[i] : i \in 1..Len(pending)} =>
          /\ autoRotateRef = autoRotate
          /\ meshes'[currentMeshRef].rx =
                 meshes[currentMeshRef].rx + (IF autoRotate THEN RotX ELSE 0)]_vars

C13_Witness ==
    /\ Mounted /\ Committed /\ currentMeshRef # NULL
    /\ autoRotate /\ autoRotateRef
    /\ snap.frames >= 2
    /\ frames > snap.frames
    /\ meshes[currentMeshRef].rx = snap.rx + RotX * (frames - snap.frames)

(* C14: from the end of initialisation until teardown exactly one          *)
(* animation-frame request is outstanding between frame callbacks, it is   *)
(* the request of the current render loop, and animRef holds its handle.   *)
C14_OneRequestOutstanding ==
    SceneAlive =>
        /\ Cardinality(rafQueue) = 1
        /\ animRef # NULL
        /\ \A r \in rafQueue : r.handle = animRef /\ r.cb.renderer = rendererRef

C14_Witness ==
    /\ SceneAlive
    /\ frames >= 3
    /\ animRef = frames
    /\ Cardinality(rafQueue) = 1

(* C15: replaceGeometry changes only the Shape attached to the Mesh (and   *)
(* the Shapes themselves): Mesh, Material, rotation, camera, renderer,     *)
(* preferences, Mirror Cells, storage and the frame request are untouched. *)
C15_ReplaceChangesOnlyShape ==
    currentMeshRef # NULL =>
        \A i \in 1..Len(Catalog) :
            LET t == ReplaceGeometry(St, Catalog[i])
            IN  /\ [t EXCEPT !.shapes = shapes,
                             !.meshes[currentMeshRef].geometry = AttachedShape] = St
                /\ t.shapes[t.meshes[currentMeshRef].geometry].kind = Catalog[i]

C15_Witness ==
    /\ SceneAlive /\ Mounted /\ Committed
    /\ Len(shapes) >= 2
    /\ shapes[AttachedShape].kind = "Esfera"
    /\ meshes[currentMeshRef].rx > 0
    /\ ActiveMaterial.wireframe
    /\ rafQueue # {}

(* The effects of a flush up to and including the init effect *)
UpToInit(q) ==
    SubSeq(q, 1, CHOOSE i \in 1..Len(q) : q[i] = "initScene")

(* C16: the Material an initialisation creates has the wireframe flag of   *)
(* the current preference (first mount, mount with persisted preferences,  *)
(* re-initialisation after toggles), and the active Material's flag equals *)
(* the wireframe state whenever no effect is pending.                      *)
C16_MaterialFollowsPreference ==
    /\ Mounted /\ Committed /\ currentMeshRef # NULL =>
          ActiveMaterial.wireframe = wireframe
    /\ Mounted /\ (Committed \/ "initScene" \in {pending[i] : i \in 1..Len(pending)}) =>
          LET q == IF Committed THEN ReinitComponent(St).pending ELSE pending
              t == RunEffects(St, UpToInit(q))
          IN  /\ t.currentMeshRef # NULL
              /\ Len(t.materials) = Len(materials) + 1
              /\ t.meshes[t.currentMeshRef].material = Len(t.materials)
              /\ t.materials[Len(t.materials)].wireframe = wireframe

C16_Witness ==
    /\ Mounted /\ Committed
    /\ Len(materials) = 2
    /\ wfTrail = <<FALSE, TRUE, TRUE>>
    /\ materials[1].wireframe
    /\ materials[2].wireframe
    /\ wireframe

(* What the teardown leaves of the resources *)
Resources(s) ==
    [listeners |-> s.listeners,
     rafQueue  |-> s.rafQueue,
     renderers |-> [i \in 1..Len(s.renderers) |-> s.renderers[i].disposed > 0],
     shapes    |-> [i \in 1..Len(s.shapes) |-> s.shapes[i].disposed > 0],
     materials |-> [i \in 1..Len(s.materials) |-> s.materials[i].disposed > 0],
     children  |-> [i \in 1..Len(s.scenes) |-> s.scenes[i].children]]

(* C17: the teardown run a second time right after the first performs all  *)
(* six steps again and leaves the resources as the first run left them:    *)
(* listener removed, no request outstanding, renderer, geometry and        *)
(* material disposed, scene children empty.                                *)
C17_TeardownIdempotent ==
    cleanup # <<>> =>
        LET env == cleanup[1]
            t1  == Cleanup(St, env)
            t2  == Cleanup(t1, env)
        IN  /\ Resources(t2) = Resources(t1)
            /\ t1.log = log \o TeardownOrder
            /\ t2.log = t1.log \o TeardownOrder
            /\ t1.listeners = {} /\ t1.rafQueue = {}
            /\ t1.renderers[env.renderer].disposed > 0
            /\ t1.shapes[env.geometry].disposed > 0
            /\ t1.materials[env.material].disposed > 0
            /\ t1.scenes[env.scene].children = {}

C17_Witness ==
    /\ phase = "unmounted" /\ cleanup # <<>>
    /\ pending = <<"cleanup">>
    /\ frames >= 2
    /\ Len(shapes) >= 2

(* C18: across initialisation, teardown and re-initialisation every        *)
(* renderer and every Material is disposed exactly once: never twice, and  *)
(* none is left undisposed after the final teardown.                       *)
C18_DisposedExactlyOnce ==
    /\ \A r \in 1..Len(renderers) : renderers[r].disposed <= 1
    /\ \A m \in 1..Len(materials) : materials[m].disposed <= 1
    /\ phase = "unmounted" /\ Committed =>
          /\ \A r \in 1..Len(renderers) : renderers[r].disposed = 1
          /\ \A m \in 1..Len(materials) : materials[m].disposed = 1

====
